---- MODULE Spec2Model ----
(***************************************************************************)
(* CourseConnect (src/app.py): the course / enrollment / lesson-progress   *)
(* engine and its notifications, as a state machine over the SQLite store. *)
(*                                                                         *)
(* The committed store is one variable per table (LessonProgress and       *)
(* Notification are bags of rows, Enrollment a set of rows with their      *)
(* primary key).  Every request handler runs in a worker slot p \in Procs  *)
(* with its own SQLAlchemy session (sess[p]): what was flushed but not     *)
(* committed is visible to p only.  SQLite has one write lock (writer):    *)
(* the first flush of a transaction takes it, commit and rollback release  *)
(* it, and a second writer waits.  A write may also fail (storage error);  *)
(* the handlers' try/except blocks decide what happens then.               *)
(* resp is the response returned by the step just taken; now numbers the   *)
(* requests that got past validation and stands for datetime.utcnow().     *)
(*                                                                         *)
(* Spec is the enrollment and progress engine (enroll_course,              *)
(* complete_lesson, the lesson views) with two users.  SpecBroadcast is    *)
(* the fan-out of create_post and create_course to a community of          *)
(* MaxUsers users.  SpecInbox is the inbox (mark_notifications_read),      *)
(* SpecLikes the likes (toggle_like).  SpecCascade runs the engine while   *)
(* courses and accounts are deleted, SpecPrivate while private courses are *)
(* created, and SpecInstructor is the life of the courses and of the       *)
(* account that teaches them.  The foreign keys of the schema are not      *)
(* enforced by the database (SQLite without PRAGMA foreign_keys): only the *)
(* cascades of the ORM delete dependent rows.                              *)
(***************************************************************************)
EXTENDS Integers, FiniteSets, Sequences, Bags, TLC

VARIABLES User, Post, Like, Course, Lesson, Enrollment, LessonProgress,
          Notification, now, failures, writer, pc, req, loc, sess, resp

vars == <<User, Post, Like, Course, Lesson, Enrollment, LessonProgress,
          Notification, now, failures, writer, pc, req, loc, sess, resp>>

tables == <<User, Post, Like, Course, Lesson, Enrollment, LessonProgress,
            Notification>>

(* ---------------------------- bounds ----------------------------------- *)

\* number of requests that get past validation in one behaviour
MaxRequests == 3

\* number of storage failures injected in one behaviour
MaxFailures == 1

\* registered users in the runs of the broadcasts (the admin included)
MaxUsers == 12

\* number of posts and courses created in one run of the broadcasts
MaxBroadcasts == 2

\* concurrent request workers
Procs == {1, 2}

(* ----------------------- values and inputs ----------------------------- *)

\* Python None / SQL NULL (ids and timestamps start at 1)
None == 0

\* session cookies a request can carry: the admin, the student, or none
UserInputs == {None, 1, 2}

\* course ids in the URL: the seeded course 'HTML & CSS Moderno' (two
\* lessons), and the id of the first course an admin creates, which does
\* not exist before
CourseInputs == {2, 5}

\* lesson ids in the URL: the two lessons of that course (4 is free, 5 is
\* not), and a lesson id that does not exist
LessonInputs == {4, 5, 9}

Max(S) == CHOOSE x \in S : \A y \in S : y <= x

\* primary key of the next inserted row (SQLite rowid: largest + 1)
NextId(table) == IF table = {} THEN 1 ELSE Max({r.id : r \in table}) + 1

(***************************************************************************)
(* Enrollment.progress_percentage is a Float holding                       *)
(* (completed_lessons / total_lessons) * 100.  It is kept as the exact     *)
(* fraction num/den (times 100); with the lesson counts of the seeded      *)
(* courses the float comparisons agree with the exact ones.                *)
(***************************************************************************)
Pct(n, d) == [num |-> n, den |-> d]

PctGE100(p) == p.num >= p.den

PctLE100(p) == p.num <= p.den

PctGE0(p) == p.num >= 0

\* p <= q
PctLE(p, q) == p.num * q.den <= q.num * p.den

\* the float equals the integer r
PctIs(p, r) == 100 * p.num = r * p.den

\* p == q
PctEq(p, q) == p.num * q.den = q.num * p.den

\* Python round(): nearest integer, ties to even
PyRound(n, d) ==
    LET q == n \div d
        r2 == 2 * (n % d)
    IN  IF r2 < d THEN q
        ELSE IF r2 > d THEN q + 1
        ELSE IF q % 2 = 0 THEN q ELSE q + 1

(* ------------------------- Python truth values ------------------------- *)

PyBool(b) == IF b THEN "True" ELSE "False"

Truthy(v) == v \notin {"False", "None"}

\* a or b
PyOr(a, b) == IF Truthy(a) THEN a ELSE b

(* ------------------------------ queries -------------------------------- *)

\* get_current_user(): the id of the session's user, None without a
\* session or when the row is gone
get_current_user(uid) ==
    IF uid # None /\ \E u \in User : u.id = uid THEN uid ELSE None

UserRow(uid) == CHOOSE u \in User : u.id = uid

CourseExists(course_id) == \E c \in Course : c.id = course_id

CourseRow(course_id) == CHOOSE c \in Course : c.id = course_id

LessonExists(lesson_id) == \E l \in Lesson : l.id = lesson_id

LessonRow(lesson_id) == CHOOSE l \in Lesson : l.id = lesson_id

\* Enrollment.query.filter_by(user_id=, course_id=)
EnrollmentsOf(uid, course_id) ==
    {e \in Enrollment : e.user_id = uid /\ e.course_id = course_id}

\* LessonProgress.query.filter_by(user_id=, lesson_id=)
ProgressOf(uid, lesson_id) ==
    {r \in BagToSet(LessonProgress) : r.user_id = uid /\ r.lesson_id = lesson_id}

\* a lazy load of the many-to-one course.instructor: None when the user
\* row is gone
instructor(instructor_id) ==
    IF \E u \in User : u.id = instructor_id THEN instructor_id ELSE None

\* lines 962-965: existing_enrollment
existing_enrollment(uid, course_id) == EnrollmentsOf(uid, course_id)

\* a phantom row for a user who is admin or teaches the course
lesson_enrollment_or_staff(uid, course_id) ==
    IF /\ EnrollmentsOf(uid, course_id) = {}
       /\ \/ UserRow(uid).is_admin
          \/ CourseRow(course_id).instructor_id = uid
      THEN {[id |-> None, user_id |-> uid, course_id |-> course_id,
             progress_percentage |-> [num |-> 0, den |-> 1],
             completed_at |-> None]}
      ELSE EnrollmentsOf(uid, course_id)

\* lines 1113-1116: the Enrollment complete_lesson requires
lesson_enrollment(uid, course_id) == EnrollmentsOf(uid, course_id)

\* the lookup finds nothing
existing_progress_none(uid, lesson_id) == {}

\* lines 1122-1125: existing_progress
existing_progress(uid, lesson_id) == ProgressOf(uid, lesson_id)

\* the table without the constraint
unique_user_course_enrollment_none(rows, e) == TRUE

\* UniqueConstraint('user_id', 'course_id'): may row e be inserted?
unique_user_course_enrollment(rows, e) ==
    ~ \E x \in rows : x.user_id = e.user_id /\ x.course_id = e.course_id

\* the table without the constraint
unique_user_lesson_progress_none(rows, r) == TRUE

\* UniqueConstraint('user_id', 'lesson_id'): may row r be inserted?
unique_user_lesson_progress(rows, r) ==
    ~ \E x \in BagToSet(rows) : x.user_id = r.user_id /\ x.lesson_id = r.lesson_id

(* ------------------------------ sessions ------------------------------- *)

\* a session with nothing flushed
EmptySess == [progress |-> {}, upd |-> {}, like |-> {}]

NoLoc == [enrollment_id |-> None, completed_at |-> None,
          stored_percentage |-> Pct(0, 1), course_id |-> None,
          instructor_id |-> None,
          progress_percentage |-> Pct(0, 1), completed |-> FALSE,
          existing_like |-> FALSE]

NoReq == [op |-> "none", user |-> None, arg |-> None, t |-> None]

NoResp == [op |-> "none", status |-> 0, user |-> None, arg |-> None]

\* the flush of the session raises StaleDataError: an UPDATE of an
\* Enrollment matches no row
Stale(upd) == \E u \in upd : ~ \E e \in Enrollment : e.id = u.id

\* the store after the UPDATEs of a session
ApplyUpd(rows, upd) ==
    {IF \E u \in upd : u.id = e.id
        THEN LET u == CHOOSE x \in upd : x.id = e.id
             IN  [e EXCEPT !.progress_percentage = u.progress_percentage,
                           !.completed_at = IF u.set_completed_at
                                               THEN u.completed_at
                                               ELSE e.completed_at]
        ELSE e : e \in rows}

\* a Notification row as create_notification builds it
NotificationRow(recipient_id, notification_type, sender_id, post_id, course_id) ==
    [type |-> notification_type,
     recipient_id |-> recipient_id, sender_id |-> sender_id,
     post_id |-> post_id, course_id |-> course_id, is_read |-> FALSE]

(* ------------------------------- Init ---------------------------------- *)

\* init_db(): the admin, four courses taught by the admin, three lessons of
\* course 1 and two of course 2 (the first one free); then one student has
\* registered and got the welcome notification
Init ==
    /\ User = {[id |-> 1, is_admin |-> TRUE], [id |-> 2, is_admin |-> FALSE]}
    /\ Course = {[id |-> c, instructor_id |-> 1, is_private |-> FALSE] : c \in 1..4}
    /\ Lesson = {[id |-> 1, course_id |-> 1, order_index |-> 1, is_free |-> TRUE,
                  content |-> 11, video_url |-> None],
                 [id |-> 2, course_id |-> 1, order_index |-> 2, is_free |-> FALSE,
                  content |-> 12, video_url |-> None],
                 [id |-> 3, course_id |-> 1, order_index |-> 3, is_free |-> FALSE,
                  content |-> 13, video_url |-> None],
                 [id |-> 4, course_id |-> 2, order_index |-> 1, is_free |-> TRUE,
                  content |-> 14, video_url |-> None],
                 [id |-> 5, course_id |-> 2, order_index |-> 2, is_free |-> FALSE,
                  content |-> 15, video_url |-> None]}
    /\ Post = {}
    /\ Like = {}
    /\ Enrollment = {}
    /\ LessonProgress = EmptyBag
    /\ Notification = SetToBag({NotificationRow(2, "welcome", None, None, None)})
    /\ now = 0
    /\ failures = 0
    /\ writer = None
    /\ pc = [p \in Procs |-> "idle"]
    /\ req = [p \in Procs |-> NoReq]
    /\ loc = [p \in Procs |-> NoLoc]
    /\ sess = [p \in Procs |-> EmptySess]
    /\ resp = NoResp

(* --------------------------- request plumbing -------------------------- *)

Response(op, status, uid, arg) ==
    [op |-> op, status |-> status, user |-> uid, arg |-> arg]

\* the request is refused before it touches the session
Reject(r) ==
    /\ resp' = r
    /\ UNCHANGED <<tables, now, failures, writer, pc, req, loc, sess>>

\* the request got past validation and goes on in worker p
Accept(p, op, uid, arg, step, l) ==
    /\ now < MaxRequests
    /\ now' = now + 1
    /\ req' = [req EXCEPT ![p] = [op |-> op, user |-> uid, arg |-> arg, t |-> now + 1]]
    /\ pc' = [pc EXCEPT ![p] = step]
    /\ loc' = [loc EXCEPT ![p] = l]
    /\ resp' = NoResp
    /\ UNCHANGED <<tables, failures, writer, sess>>

\* the handler returns r: the worker is idle again, its session is closed
Return(p, r) ==
    /\ pc' = [pc EXCEPT ![p] = "idle"]
    /\ req' = [req EXCEPT ![p] = NoReq]
    /\ loc' = [loc EXCEPT ![p] = NoLoc]
    /\ sess' = [sess EXCEPT ![p] = EmptySess]
    /\ resp' = r

\* the handler goes on at step
Goto(p, step) ==
    /\ pc' = [pc EXCEPT ![p] = step]
    /\ resp' = NoResp
    /\ UNCHANGED req

(* --------------------------- create_notification ----------------------- *)

\* the instructor is notified whoever acted
instructor_is_other_unchecked(course, user) == course.instructor_id # None

\* lines 980, 1162, 1173: course.instructor and course.instructor.id != user.id
instructor_is_other(course, user) ==
    course.instructor_id # None /\ course.instructor_id # user

\* lines 236-255: add the Notification and commit the session; with it
\* everything the session has pending is committed.  On an exception the
\* session is rolled back (with everything pending) and False is returned:
\* the caller goes on.
create_notification(p, recipient_id, notification_type, sender_id, post_id, course_id) ==
    /\ writer \in {None, p}
    /\ \/ /\ ~ Stale(sess[p].upd)
          /\ Enrollment' = ApplyUpd(Enrollment, sess[p].upd)
          /\ LessonProgress' = LessonProgress (+) SetToBag(sess[p].progress)
          /\ Like' = Like \cup sess[p].like
          /\ Notification' = Notification (+)
                 SetToBag({NotificationRow(recipient_id, notification_type,
                                           sender_id, post_id, course_id)})
          /\ UNCHANGED failures
       \/ /\ Stale(sess[p].upd)
          /\ UNCHANGED <<Enrollment, LessonProgress, Like, Notification, failures>>
       \/ /\ failures < MaxFailures
          /\ failures' = failures + 1
          /\ UNCHANGED <<Enrollment, LessonProgress, Like, Notification>>
    /\ writer' = None
    /\ sess' = [sess EXCEPT ![p] = EmptySess]
    /\ UNCHANGED <<User, Post, Course, Lesson, now>>

(* ----------------------------- enroll_course --------------------------- *)

\* lines 954-968: require_auth, load the course, look for an enrollment
enroll_course(p) ==
    /\ pc[p] = "idle"
    /\ \E uid \in UserInputs, course_id \in CourseInputs :
        LET user == get_current_user(uid)
            R(s) == Response("enroll_course", s, uid, course_id)
        IN  IF user = None
              THEN Reject(R(401))
            ELSE IF ~ CourseExists(course_id)
              \* get_or_404 raises inside the try block: caught below as 500
              THEN Reject(R(500))
            ELSE IF existing_enrollment(user, course_id) # {}
              THEN Reject(R(400))
            ELSE Accept(p, "enroll_course", user, course_id, "enroll_commit", NoLoc)

\* lines 970-977: add the Enrollment and commit
enroll_course_commit(p) ==
    /\ pc[p] = "enroll_commit"
    /\ writer = None
    /\ LET user == req[p].user
           course_id == req[p].arg
           enrollment == [id |-> NextId(Enrollment), user_id |-> user,
                          course_id |-> course_id,
                          progress_percentage |-> Pct(0, 1),
                          completed_at |-> None]
           R(s) == Response("enroll_course", s, user, course_id)
       IN  \/ /\ unique_user_course_enrollment(Enrollment, enrollment)
              /\ Enrollment' = Enrollment \cup {enrollment}
              /\ IF \/ ~ CourseExists(course_id)
                    \/ /\ instructor(CourseRow(course_id).instructor_id) # None
                       /\ get_current_user(user) = None
                   \* the commit has expired course and user: the row of one
                   \* of them is gone, ObjectDeletedError, generic 500
                   THEN Return(p, R(500))
                   ELSE LET course == [CourseRow(course_id) EXCEPT !.instructor_id =
                                          instructor(CourseRow(course_id).instructor_id)]
                        IN  IF instructor_is_other(course, user)
                              THEN /\ Goto(p, "enroll_notify")
                                   /\ loc' = [loc EXCEPT
                                                ![p].enrollment_id = enrollment.id,
                                                ![p].instructor_id = course.instructor_id]
                                   /\ UNCHANGED sess
                              ELSE Return(p, R(201))
              /\ UNCHANGED failures
           \/ \* IntegrityError: rollback, generic 500
              /\ ~ unique_user_course_enrollment(Enrollment, enrollment)
              /\ Return(p, R(500))
              /\ UNCHANGED <<Enrollment, failures>>
           \/ \* the storage fails: rollback, generic 500
              /\ failures < MaxFailures
              /\ failures' = failures + 1
              /\ Return(p, R(500))
              /\ UNCHANGED Enrollment
    /\ UNCHANGED <<User, Post, Like, Course, Lesson, LessonProgress, Notification,
                   now, writer>>

\* lines 979-993: notify the instructor, answer 201
enroll_course_notify(p) ==
    /\ pc[p] = "enroll_notify"
    /\ create_notification(p, loc[p].instructor_id,
                           "course_enrollment", req[p].user, None, req[p].arg)
    /\ pc' = [pc EXCEPT ![p] = "idle"]
    /\ req' = [req EXCEPT ![p] = NoReq]
    /\ loc' = [loc EXCEPT ![p] = NoLoc]
    \* enrollment.id of the answer reloads the row: gone, generic 500
    /\ resp' = Response("enroll_course",
                        IF \E e \in Enrollment : e.id = loc[p].enrollment_id
                          THEN 201 ELSE 500,
                        req[p].user, req[p].arg)

(* ----------------------------- complete_lesson ------------------------- *)

\* lines 1104-1128: require_auth, load the lesson and its course, require an
\* enrollment, refuse a lesson that is already completed
complete_lesson(p) ==
    /\ pc[p] = "idle"
    /\ \E uid \in UserInputs, lesson_id \in LessonInputs :
        LET user == get_current_user(uid)
            R(s) == Response("complete_lesson", s, uid, lesson_id)
        IN  IF user = None
              THEN Reject(R(401))
            ELSE IF ~ LessonExists(lesson_id)
              \* get_or_404 raises inside the try block: caught as 500
              THEN Reject(R(500))
            ELSE IF lesson_enrollment(user, LessonRow(lesson_id).course_id) = {}
              THEN Reject(R(403))
            ELSE IF existing_progress(user, lesson_id) # {}
              THEN Reject(R(400))
            ELSE LET enrollment ==
                         CHOOSE e \in lesson_enrollment(user, LessonRow(lesson_id).course_id) : TRUE
                     course == CourseRow(LessonRow(lesson_id).course_id)
                 IN  Accept(p, "complete_lesson", user, lesson_id, "complete_flush",
                            [NoLoc EXCEPT !.enrollment_id = enrollment.id,
                                          !.completed_at = enrollment.completed_at,
                                          !.stored_percentage =
                                               enrollment.progress_percentage,
                                          !.course_id = course.id,
                                          !.instructor_id = course.instructor_id])

\* line 1140: Lesson.query.filter_by(course_id=).count()
total_lessons(course_id) ==
    Cardinality({l \in Lesson : l.course_id = course_id})

\* lines 1141-1144: the rows the session sees (the committed ones and the
\* row it has just flushed) of this user, joined to the lessons of the
\* course, counted, + 1
completed_lessons(visible, user, course_id) ==
    LET mine == {r \in BagToSet(visible) :
                    /\ r.user_id = user
                    /\ \E l \in Lesson : l.id = r.lesson_id /\ l.course_id = course_id}
    IN  BagCardinality([r \in mine |-> visible[r]]) + 1

\* the share of the lessons that are left
progress_percentage_remaining(completed, total) ==
    IF total > 0 THEN Pct(total - completed, total) ELSE Pct(0, 1)

\* line 1146
progress_percentage(completed, total) ==
    IF total > 0 THEN Pct(completed, total) ELSE Pct(0, 1)

\* lines 1130-1151: add the LessonProgress; the count queries autoflush it
\* (INSERT, taking the write lock); recompute the percentage and set it, and
\* completed_at, on the Enrollment object loaded before
complete_lesson_flush(p) ==
    /\ pc[p] = "complete_flush"
    /\ writer = None
    /\ LET user == req[p].user
           lesson == [id |-> req[p].arg, course_id |-> loc[p].course_id]
           course == [id |-> loc[p].course_id,
                      instructor_id |-> instructor(loc[p].instructor_id)]
           progress == [user_id |-> user, lesson_id |-> lesson.id]
           pct == progress_percentage(
                      completed_lessons(LessonProgress (+) SetToBag({progress}),
                                        user, course.id),
                      total_lessons(course.id))
           completed == PctGE100(pct) /\ loc[p].completed_at = None
           \* an attribute set to the value it has is no change: no UPDATE
           modified == completed \/ ~ PctEq(pct, loc[p].stored_percentage)
           R(s) == Response("complete_lesson", s, user, lesson.id)
       IN  \/ /\ unique_user_lesson_progress(LessonProgress, progress)
              /\ writer' = p
              /\ sess' = [sess EXCEPT ![p] =
                            [progress |-> {progress},
                             upd |-> IF modified
                                       THEN {[id |-> loc[p].enrollment_id,
                                              progress_percentage |-> pct,
                                              set_completed_at |-> completed,
                                              completed_at |-> IF completed THEN req[p].t
                                                                            ELSE None]}
                                       ELSE {},
                             like |-> {}]]
              /\ loc' = [loc EXCEPT ![p].progress_percentage = pct,
                                    ![p].completed = completed]
              /\ Goto(p, IF completed THEN "complete_notify_user"
                         ELSE IF instructor_is_other(course, user)
                           THEN "complete_notify_instructor"
                         ELSE "complete_commit")
              /\ UNCHANGED failures
           \/ \* IntegrityError on the INSERT: rollback, generic 500
              /\ ~ unique_user_lesson_progress(LessonProgress, progress)
              /\ Return(p, R(500))
              /\ UNCHANGED <<writer, failures>>
           \/ \* the storage fails: rollback, generic 500
              /\ failures < MaxFailures
              /\ failures' = failures + 1
              /\ Return(p, R(500))
              /\ UNCHANGED writer
    /\ UNCHANGED <<tables, now>>

\* lines 1153-1159: create_system_notification(user.id, 'course_completed')
complete_lesson_notify_user(p) ==
    /\ pc[p] = "complete_notify_user"
    /\ create_notification(p, req[p].user, "course_completed", None, None, None)
    /\ IF \/ ~ CourseExists(loc[p].course_id)
          \/ /\ instructor(CourseRow(loc[p].course_id).instructor_id) # None
             /\ get_current_user(req[p].user) = None
         \* the commit (or rollback) has expired course and user: the row of
         \* one of them is gone, ObjectDeletedError, generic 500
         THEN /\ pc' = [pc EXCEPT ![p] = "idle"]
              /\ req' = [req EXCEPT ![p] = NoReq]
              /\ loc' = [loc EXCEPT ![p] = NoLoc]
              /\ resp' = Response("complete_lesson", 500, req[p].user, req[p].arg)
         ELSE LET course == [CourseRow(loc[p].course_id) EXCEPT !.instructor_id =
                                instructor(CourseRow(loc[p].course_id).instructor_id)]
              IN  /\ Goto(p, IF instructor_is_other(course, req[p].user)
                               THEN "complete_notify_instructor"
                               ELSE "complete_commit")
                  /\ loc' = [loc EXCEPT ![p].instructor_id = course.instructor_id]

\* lines 1161-1170 and 1172-1181: the notification to the instructor,
\* 'course_completed' in the branch that set completed_at, else
\* 'lesson_completed'
complete_lesson_notify_instructor(p) ==
    /\ pc[p] = "complete_notify_instructor"
    /\ create_notification(p, loc[p].instructor_id,
                           IF loc[p].completed THEN "course_completed"
                                               ELSE "lesson_completed",
                           req[p].user, None, loc[p].course_id)
    /\ Goto(p, "complete_commit")
    /\ UNCHANGED loc

\* lines 1183-1193: commit what is still pending and answer 200
complete_lesson_commit(p) ==
    /\ pc[p] = "complete_commit"
    /\ writer \in {None, p}
    /\ \/ /\ ~ Stale(sess[p].upd)
          /\ Enrollment' = ApplyUpd(Enrollment, sess[p].upd)
          /\ LessonProgress' = LessonProgress (+) SetToBag(sess[p].progress)
          /\ Return(p, [op |-> "complete_lesson", status |-> 200,
                        user |-> req[p].user, arg |-> req[p].arg,
                        progress_percentage |-> loc[p].progress_percentage,
                        course_completed |-> PctGE100(loc[p].progress_percentage)])
          /\ UNCHANGED failures
       \/ \* StaleDataError: rollback, generic 500
          /\ Stale(sess[p].upd)
          /\ Return(p, Response("complete_lesson", 500, req[p].user, req[p].arg))
          /\ UNCHANGED <<Enrollment, LessonProgress, failures>>
       \/ \* the storage fails: rollback, generic 500
          /\ sess[p] # EmptySess
          /\ failures < MaxFailures
          /\ failures' = failures + 1
          /\ Return(p, Response("complete_lesson", 500, req[p].user, req[p].arg))
          /\ UNCHANGED <<Enrollment, LessonProgress>>
    /\ writer' = None
    /\ UNCHANGED <<User, Post, Like, Course, Lesson, Notification, now>>

(* ------------------------------ lesson views --------------------------- *)

\* the free flag is ignored
is_accessible_without_free(lesson, is_enrolled, current_user) ==
    PyOr(PyBool(is_enrolled),
         IF current_user = None THEN "None"
         ELSE PyBool(UserRow(current_user).is_admin))

\* line 1031
is_accessible(lesson, is_enrolled, current_user) ==
    PyOr(PyOr(PyBool(lesson.is_free), PyBool(is_enrolled)),
         \* current_user and current_user.is_admin
         IF current_user = None THEN "None"
         ELSE PyBool(UserRow(current_user).is_admin))

\* the admin flag is ignored
can_access_without_admin(lesson, is_enrolled, current_user) ==
    PyOr(PyBool(lesson.is_free), PyBool(is_enrolled))

\* line 1068
can_access(lesson, is_enrolled, current_user) ==
    PyOr(PyOr(PyBool(lesson.is_free), PyBool(is_enrolled)),
         \* current_user and current_user.is_admin
         IF current_user = None THEN "None"
         ELSE PyBool(UserRow(current_user).is_admin))

\* lines 1004-1049: GET /api/courses/<id>/lessons
get_course_lessons(uid, course_id) ==
    LET current_user == get_current_user(uid)
        is_enrolled == current_user # None /\ EnrollmentsOf(current_user, course_id) # {}
        R(s) == Response("get_course_lessons", s, uid, course_id)
    IN  IF ~ CourseExists(course_id)
          THEN R(500)
          ELSE [op |-> "get_course_lessons", status |-> 200,
                user |-> uid, arg |-> course_id,
                lessons |->
                  {LET a == is_accessible(lesson, is_enrolled, current_user)
                   IN  [id |-> lesson.id,
                        content |-> IF Truthy(a) THEN lesson.content ELSE None,
                        order_index |-> lesson.order_index,
                        is_free |-> lesson.is_free,
                        video_url |-> IF Truthy(a) THEN lesson.video_url ELSE None,
                        is_completed |-> current_user # None
                                         /\ ProgressOf(current_user, lesson.id) # {},
                        is_accessible |-> a]
                   : lesson \in {l \in Lesson : l.course_id = course_id}}]

\* lines 1052-1100: GET /api/lessons/<id>
get_lesson(uid, lesson_id) ==
    LET current_user == get_current_user(uid)
        R(s) == Response("get_lesson", s, uid, lesson_id)
    IN  IF ~ LessonExists(lesson_id)
          THEN R(500)
          ELSE LET lesson == LessonRow(lesson_id)
                   is_enrolled == current_user # None
                                  /\ EnrollmentsOf(current_user, lesson.course_id) # {}
               IN  IF ~ Truthy(can_access(lesson, is_enrolled, current_user))
                     THEN R(403)
                     ELSE [op |-> "get_lesson", status |-> 200,
                           user |-> uid, arg |-> lesson_id,
                           lesson |-> [id |-> lesson.id,
                                       content |-> lesson.content,
                                       order_index |-> lesson.order_index,
                                       is_free |-> lesson.is_free,
                                       video_url |-> lesson.video_url,
                                       is_completed |-> current_user # None
                                                        /\ ProgressOf(current_user, lesson_id) # {}]]

\* a viewer fetches the lesson list of a course
GetCourseLessons ==
    \E uid \in UserInputs, course_id \in CourseInputs :
        Reject(get_course_lessons(uid, course_id))

\* a viewer fetches one lesson
GetLesson ==
    \E uid \in UserInputs, lesson_id \in LessonInputs :
        Reject(get_lesson(uid, lesson_id))

(* ------------------------------ broadcasts ----------------------------- *)

\* a request body: a required field is missing, or the body is valid
BodyInputs == {None, 1}

\* the subsets of S with at most k elements
RECURSIVE SubsetsUpTo(_, _)
SubsetsUpTo(S, k) ==
    IF k = 0 THEN {{}}
    ELSE LET T == SubsetsUpTo(S, k - 1)
         IN  T \cup {F \cup {x} : F \in T, x \in S}

\* line 531: User.query.filter(User.id != user.id).limit(10).all(); SQLite
\* scans the table in rowid order
top_users(user) ==
    LET others == {u.id : u \in User} \ {user}
    IN  {i \in others : Cardinality({j \in others : j < i}) < 10}

\* line 906: User.query.filter(User.id != user.id).all()
all_users(user) == {u.id : u \in User} \ {user}

\* lines 532-540 and 907-915: one create_notification per recipient, each
\* with its own commit; the ones that fail are dropped and the loop goes on
notify_each(recipients, failed, notification_type, sender_id, post_id, course_id) ==
    /\ Notification' = Notification (+)
           SetToBag({NotificationRow(r, notification_type, sender_id, post_id, course_id)
                        : r \in recipients \ failed})
    /\ failures' = failures + Cardinality(failed)

\* lines 480-555: POST /api/posts
create_post ==
    \E uid \in UserInputs, content \in BodyInputs :
        LET user == get_current_user(uid)
            R(s) == Response("create_post", s, uid, None)
        IN  IF user = None
              THEN Reject(R(401))
            ELSE IF content = None
              THEN Reject(R(400))
            ELSE /\ now < MaxBroadcasts
                 /\ now' = now + 1
                 /\ writer = None
                 /\ \/ LET post == [id |-> NextId(Post), user_id |-> user]
                        IN  /\ Post' = Post \cup {post}
                            /\ \E failed \in SubsetsUpTo(top_users(user),
                                                         MaxFailures - failures) :
                                  notify_each(top_users(user), failed,
                                              "new_post", user, post.id, None)
                            /\ resp' = Response("create_post", 201, uid, post.id)
                    \/ \* the storage fails: rollback, 500
                       /\ failures < MaxFailures
                       /\ failures' = failures + 1
                       /\ resp' = R(500)
                       /\ UNCHANGED <<Post, Notification>>
                 /\ UNCHANGED <<User, Like, Course, Lesson, Enrollment,
                                LessonProgress, writer, pc, req, loc, sess>>

\* lines 876-887: require_admin and the required fields
create_course(p) ==
    /\ pc[p] = "idle"
    /\ \E uid \in UserInputs, data \in BodyInputs, is_private \in BOOLEAN :
        LET user == get_current_user(uid)
            R(s) == Response("create_course", s, uid, None)
        IN  IF user = None
              THEN Reject(R(401))
            ELSE IF ~ UserRow(user).is_admin
              THEN Reject(R(403))
            ELSE IF data = None
              THEN Reject(R(400))
            ELSE /\ now < MaxBroadcasts
                 /\ Accept(p, "create_course", user, is_private,
                           "create_course_commit", NoLoc)

\* lines 889-924: add the Course and commit; then one notification per
\* other user
create_course_commit(p) ==
    /\ pc[p] = "create_course_commit"
    /\ writer = None
    /\ LET user == req[p].user
           course == [id |-> NextId(Course), instructor_id |-> user,
                      is_private |-> req[p].arg]
           R(s) == Response("create_course", s, user, None)
       IN  \/ /\ Course' = Course \cup {course}
              /\ IF get_current_user(user) = None
                   \* the commit has expired user and its row is gone:
                   \* ObjectDeletedError at user.id (line 906), generic 500
                   THEN /\ Return(p, R(500))
                        /\ UNCHANGED <<Notification, failures>>
                   ELSE /\ \E failed \in SubsetsUpTo(all_users(user),
                                                    MaxFailures - failures) :
                             notify_each(all_users(user), failed,
                                         "new_course", user, None, course.id)
                        /\ Return(p, Response("create_course", 201, user, course.id))
           \/ \* the storage fails: rollback, 500
              /\ failures < MaxFailures
              /\ failures' = failures + 1
              /\ Return(p, R(500))
              /\ UNCHANGED <<Course, Notification>>
    /\ UNCHANGED <<User, Post, Like, Lesson, Enrollment, LessonProgress, now, writer>>

\* the numbers of registered users the broadcast runs start from: ten
\* users besides the admin, or eleven
UserCounts == {MaxUsers - 1, MaxUsers}

\* init_db(), then n - 1 users have registered and got their welcome
\* notifications
InitBroadcast ==
    \E n \in UserCounts :
        /\ User = {[id |-> i, is_admin |-> (i = 1)] : i \in 1..n}
        /\ Post = {}
        /\ Like = {}
        /\ Course = {[id |-> c, instructor_id |-> 1, is_private |-> FALSE] : c \in 1..4}
        /\ Lesson = {}
        /\ Enrollment = {}
        /\ LessonProgress = EmptyBag
        /\ Notification = SetToBag({NotificationRow(i, "welcome", None, None, None)
                                       : i \in 2..n})
        /\ now = 0
        /\ failures = 0
        /\ writer = None
        /\ pc = [p \in Procs |-> "idle"]
        /\ req = [p \in Procs |-> NoReq]
        /\ loc = [p \in Procs |-> NoLoc]
        /\ sess = [p \in Procs |-> EmptySess]
        /\ resp = NoResp

NextBroadcast ==
    \/ create_post
    \/ \E p \in Procs : create_course(p)
    \/ \E p \in Procs : create_course_commit(p)

SpecBroadcast == InitBroadcast /\ [][NextBroadcast]_vars

(* -------------------------- notifications inbox ------------------------ *)

\* the bag B cut down to the rows in the set rows
SelectRows(B, rows) == [r \in DOMAIN B \cap rows |-> B[r]]

\* the 'notification_ids' of a request body: no list or an empty one, or a
\* list of ids, given by the rows the ids name (ids that name no row select
\* nothing)
NotificationIdsInputs ==
    {[listed |-> FALSE, rows |-> EmptyBag]}
        \cup {[listed |-> TRUE, rows |-> b] : b \in SubBag(Notification)}

\* the listed rows, whoever receives them
notifications_to_mark_any_recipient(user, notification_ids) ==
    IF notification_ids.listed
      THEN notification_ids.rows
      ELSE SelectRows(Notification,
                      {r \in DOMAIN Notification :
                          r.recipient_id = user /\ ~ r.is_read})

\* lines 1276-1287: the rows the UPDATE matches: the listed ones that user
\* receives, or without a list all the unread ones user receives
notifications_to_mark(user, notification_ids) ==
    IF notification_ids.listed
      THEN SelectRows(notification_ids.rows,
                      {r \in DOMAIN notification_ids.rows : r.recipient_id = user})
      ELSE SelectRows(Notification,
                      {r \in DOMAIN Notification :
                          r.recipient_id = user /\ ~ r.is_read})

\* .update({'is_read': True})
MarkedRead(rows) == BagOfAll(LAMBDA r : [r EXCEPT !.is_read = TRUE], rows)

\* lines 1266-1295: POST /api/notifications/mark-read
mark_notifications_read ==
    \E uid \in UserInputs, notification_ids \in NotificationIdsInputs :
        LET user == get_current_user(uid)
            R(s) == Response("mark_notifications_read", s, uid, notification_ids)
            rows == notifications_to_mark(user, notification_ids)
        IN  IF user = None
              THEN Reject(R(401))
            ELSE /\ writer = None
                 /\ \/ /\ Notification' = (Notification (-) rows) (+) MarkedRead(rows)
                       /\ resp' = R(200)
                       /\ UNCHANGED failures
                    \/ \* the storage fails: rollback, 500
                       /\ failures < MaxFailures
                       /\ failures' = failures + 1
                       /\ resp' = R(500)
                       /\ UNCHANGED Notification
                 /\ UNCHANGED <<User, Post, Like, Course, Lesson, Enrollment,
                                LessonProgress, now, writer, pc, req, loc, sess>>

\* the inbox of the two users: the posts of the other one fill it
NextInbox ==
    \/ create_post
    \/ mark_notifications_read

SpecInbox == Init /\ [][NextInbox]_vars

(* --------------------------------- likes ------------------------------- *)

\* post ids in the URL: the first two posts of the community
PostInputs == {1, 2}

PostExists(post_id) == \E x \in Post : x.id = post_id

PostRow(post_id) == CHOOSE x \in Post : x.id = post_id

\* line 600: Like.query.filter_by(user_id=, post_id=)
existing_like(uid, post_id) ==
    {l \in Like : l.user_id = uid /\ l.post_id = post_id}

\* UniqueConstraint('user_id', 'post_id'): may row l be inserted?
unique_user_post_like(rows, l) ==
    ~ \E x \in rows : x.user_id = l.user_id /\ x.post_id = l.post_id

\* line 626: Like.query.filter_by(post_id=).count()
likes_count(rows, post_id) == Cardinality({l \in rows : l.post_id = post_id})

\* lines 592-600: require_auth, load the post, look for the like
toggle_like(p) ==
    /\ pc[p] = "idle"
    /\ \E uid \in UserInputs, post_id \in PostInputs :
        LET user == get_current_user(uid)
            R(s) == Response("toggle_like", s, uid, post_id)
        IN  IF user = None
              THEN Reject(R(401))
            ELSE IF ~ PostExists(post_id)
              \* get_or_404 raises inside the try block: caught as 500
              THEN Reject(R(500))
            ELSE Accept(p, "toggle_like", user, post_id, "like_flush",
                        [NoLoc EXCEPT !.existing_like =
                                         existing_like(user, post_id) # {}])

\* the answer of toggle_like (lines 628-631)
LikeResponse(p, is_liked, rows) ==
    [op |-> "toggle_like", status |-> 200, user |-> req[p].user,
     arg |-> req[p].arg, is_liked |-> is_liked,
     likes_count |-> likes_count(rows, req[p].arg)]

\* lines 602-613 (and 623 where no notification is due): delete the like
\* that was found and commit (a DELETE that matches no row is only warned
\* about); or add the like, which post.author autoflushes (INSERT, taking
\* the write lock), and commit it if the post is the user's own
toggle_like_flush(p) ==
    /\ pc[p] = "like_flush"
    /\ writer = None
    /\ LET user == req[p].user
           post == PostRow(req[p].arg)
           like == [user_id |-> user, post_id |-> post.id]
           R(s) == Response("toggle_like", s, user, post.id)
       IN  \/ /\ loc[p].existing_like
              /\ Like' = Like \ {like}
              /\ Return(p, LikeResponse(p, FALSE, Like'))
              /\ UNCHANGED <<writer, failures>>
           \/ /\ ~ loc[p].existing_like
              /\ unique_user_post_like(Like, like)
              /\ post.user_id = user
              /\ Like' = Like \cup {like}
              /\ Return(p, LikeResponse(p, TRUE, Like'))
              /\ UNCHANGED <<writer, failures>>
           \/ /\ ~ loc[p].existing_like
              /\ unique_user_post_like(Like, like)
              /\ post.user_id # user
              /\ writer' = p
              /\ sess' = [sess EXCEPT ![p] = [EmptySess EXCEPT !.like = {like}]]
              /\ Goto(p, "like_notify")
              /\ UNCHANGED <<Like, loc, failures>>
           \/ \* IntegrityError on the INSERT: rollback, generic 500
              /\ ~ loc[p].existing_like
              /\ ~ unique_user_post_like(Like, like)
              /\ Return(p, R(500))
              /\ UNCHANGED <<Like, writer, failures>>
           \/ \* the storage fails: rollback, generic 500
              /\ failures < MaxFailures
              /\ failures' = failures + 1
              /\ Return(p, R(500))
              /\ UNCHANGED <<Like, writer>>
    /\ UNCHANGED <<User, Post, Course, Lesson, Enrollment, LessonProgress,
                   Notification, now>>

\* lines 613-631: the 'like' notification to the author, whose commit
\* commits the like too; the commit of line 623 has nothing left; answer 200
toggle_like_notify(p) ==
    /\ pc[p] = "like_notify"
    /\ create_notification(p, PostRow(req[p].arg).user_id, "like",
                           req[p].user, req[p].arg, None)
    /\ pc' = [pc EXCEPT ![p] = "idle"]
    /\ req' = [req EXCEPT ![p] = NoReq]
    /\ loc' = [loc EXCEPT ![p] = NoLoc]
    /\ resp' = LikeResponse(p, TRUE, Like')

\* the two users post and like
NextLikes ==
    \/ create_post
    \/ \E p \in Procs : toggle_like(p)
    \/ \E p \in Procs : toggle_like_flush(p)
    \/ \E p \in Procs : toggle_like_notify(p)

SpecLikes == Init /\ [][NextLikes]_vars

(* ---------------------- course and account deletion ------------------- *)

\* the ids of the seeded courses
SeededCourses == 1..4

\* lines 930-946: DELETE /api/courses/<course_id>.  db.session.delete
\* cascades over Course.lessons, Course.enrollments and
\* Lesson.progress_records (cascade='all, delete-orphan'): the rows these
\* relationships load are deleted with the course, in one commit
delete_course(course_ids) ==
    \E uid \in UserInputs, course_id \in course_ids :
        LET user == get_current_user(uid)
            R(s) == Response("delete_course", s, uid, course_id)
            lessons == {l \in Lesson : l.course_id = course_id}
        IN  IF user = None
              THEN Reject(R(401))
            ELSE IF ~ UserRow(user).is_admin
              THEN Reject(R(403))
            ELSE IF ~ CourseExists(course_id)
              \* get_or_404 raises inside the try block: caught as 500
              THEN Reject(R(500))
            ELSE /\ writer = None
                 /\ \/ /\ Course' = Course \ {CourseRow(course_id)}
                       /\ Lesson' = Lesson \ lessons
                       /\ Enrollment' = {e \in Enrollment : e.course_id # course_id}
                       /\ LessonProgress' =
                             SelectRows(LessonProgress,
                                        {r \in DOMAIN LessonProgress :
                                            \A l \in lessons : l.id # r.lesson_id})
                       /\ resp' = R(200)
                       /\ UNCHANGED failures
                    \/ \* the storage fails: rollback, 500
                       /\ failures < MaxFailures
                       /\ failures' = failures + 1
                       /\ resp' = R(500)
                       /\ UNCHANGED <<Course, Lesson, Enrollment, LessonProgress>>
                 /\ UNCHANGED <<User, Post, Like, Notification, now, writer,
                                pc, req, loc, sess>>

\* line 156: the backref taught_courses of Course.instructor
taught_courses(user) == {c \in Course : c.instructor_id = user}

\* lines 1405-1435: POST /api/delete-account.  db.session.delete cascades
\* over the relationships of User (posts with their likes, likes,
\* notifications sent and received, enrollments, lesson_progress).
\* taught_courses has no delete cascade: the flush sets instructor_id of
\* these courses to NULL, the column is NOT NULL, IntegrityError, 500
delete_account ==
    \E uid \in UserInputs :
        LET user == get_current_user(uid)
            R(s) == Response("delete_account", s, uid, None)
            posts == {x \in Post : x.user_id = user}
        IN  IF user = None
              THEN Reject(R(401))
            ELSE /\ writer = None
                 /\ \/ /\ taught_courses(user) = {}
                       /\ User' = User \ {UserRow(user)}
                       /\ Post' = Post \ posts
                       /\ Like' = {l \in Like : /\ l.user_id # user
                                                /\ \A x \in posts : x.id # l.post_id}
                       /\ Enrollment' = {e \in Enrollment : e.user_id # user}
                       /\ LessonProgress' =
                             SelectRows(LessonProgress,
                                        {r \in DOMAIN LessonProgress :
                                            r.user_id # user})
                       /\ Notification' =
                             SelectRows(Notification,
                                        {n \in DOMAIN Notification :
                                            /\ n.recipient_id # user
                                            /\ n.sender_id # user})
                       /\ resp' = R(200)
                       /\ UNCHANGED failures
                    \/ /\ taught_courses(user) # {}
                       /\ resp' = R(500)
                       /\ UNCHANGED <<User, Post, Like, Enrollment, LessonProgress,
                                      Notification, failures>>
                    \/ \* the storage fails: rollback, 500
                       /\ failures < MaxFailures
                       /\ failures' = failures + 1
                       /\ resp' = R(500)
                       /\ UNCHANGED <<User, Post, Like, Enrollment, LessonProgress,
                                      Notification>>
                 /\ UNCHANGED <<Course, Lesson, now, writer, pc, req, loc, sess>>

\* enrollment and progress while courses and accounts are deleted
NextCascade ==
    \/ \E p \in Procs : enroll_course(p)
    \/ \E p \in Procs : enroll_course_commit(p)
    \/ \E p \in Procs : enroll_course_notify(p)
    \/ \E p \in Procs : complete_lesson(p)
    \/ \E p \in Procs : complete_lesson_flush(p)
    \/ \E p \in Procs : complete_lesson_notify_user(p)
    \/ \E p \in Procs : complete_lesson_notify_instructor(p)
    \/ \E p \in Procs : complete_lesson_commit(p)
    \/ delete_course(CourseInputs)
    \/ delete_account

SpecCascade == Init /\ [][NextCascade]_vars

\* the admin creates courses, private ones too, and the users enroll and
\* look at the lessons
NextPrivate ==
    \/ \E p \in Procs : create_course(p)
    \/ \E p \in Procs : create_course_commit(p)
    \/ \E p \in Procs : enroll_course(p)
    \/ \E p \in Procs : enroll_course_commit(p)
    \/ \E p \in Procs : enroll_course_notify(p)
    \/ GetCourseLessons
    \/ GetLesson

SpecPrivate == Init /\ [][NextPrivate]_vars

\* the courses and the accounts of those who teach them
NextInstructor ==
    \/ \E p \in Procs : create_course(p)
    \/ \E p \in Procs : create_course_commit(p)
    \/ delete_course(SeededCourses)
    \/ delete_account

SpecInstructor == Init /\ [][NextInstructor]_vars

(* ---------------------------- specification ---------------------------- *)

Next ==
    \/ \E p \in Procs : enroll_course(p)
    \/ \E p \in Procs : enroll_course_commit(p)
    \/ \E p \in Procs : enroll_course_notify(p)
    \/ \E p \in Procs : complete_lesson(p)
    \/ \E p \in Procs : complete_lesson_flush(p)
    \/ \E p \in Procs : complete_lesson_notify_user(p)
    \/ \E p \in Procs : complete_lesson_notify_instructor(p)
    \/ \E p \in Procs : complete_lesson_commit(p)
    \/ GetCourseLessons
    \/ GetLesson

Spec == Init /\ [][Next]_vars

(* ------------------------------- claims -------------------------------- *)

\* the lessons of a course
LessonsOf(course_id) == {l \in Lesson : l.course_id = course_id}

\* the lessons of a course for which the user has a LessonProgress row
CompletedBy(uid, course_id) ==
    {l \in LessonsOf(course_id) : ProgressOf(uid, l.id) # {}}

\* the step is the start of a complete_lesson(uid, lesson_id) call: it is
\* refused at once, or it gets past validation
CompleteLessonCalled(uid, lesson_id) ==
    \/ /\ pc' = pc
       /\ resp'.op = "complete_lesson"
       /\ resp'.user = uid
       /\ resp'.arg = lesson_id
    \/ \E p \in Procs :
          /\ pc[p] = "idle"
          /\ pc'[p] = "complete_flush"
          /\ req'[p].user = uid
          /\ req'[p].arg = lesson_id

\* C1: in every reachable state there is at most one Enrollment row per
\* (user, course), also when two enroll calls for the same pair both pass
\* the 'already enrolled' check before either commits
C1_OneEnrollmentPerUserCourse ==
    \A e1 \in Enrollment, e2 \in Enrollment :
        (e1.user_id = e2.user_id /\ e1.course_id = e2.course_id) => e1 = e2

\* two enroll calls for the same pair passed the check, one has committed
\* and the other one has been refused by the constraint
C1_Witness ==
    /\ failures = 0
    /\ resp.op = "enroll_course"
    /\ resp.status = 500
    /\ CourseExists(resp.arg)
    /\ Cardinality(EnrollmentsOf(resp.user, resp.arg)) = 1

\* C2: in every reachable state there is at most one LessonProgress row per
\* (user, lesson), also when two complete calls for the same pair both pass
\* the 'already completed' check before either commits
C2_OneProgressPerUserLesson ==
    \A r \in BagToSet(LessonProgress) : CopiesIn(r, LessonProgress) <= 1

\* two complete calls for the same pair passed the check, one has committed
\* and the other one has been refused by the constraint
C2_Witness ==
    /\ failures = 0
    /\ resp.op = "complete_lesson"
    /\ resp.status = 500
    /\ LessonExists(resp.arg)
    /\ CopiesIn([user_id |-> resp.user, lesson_id |-> resp.arg], LessonProgress) = 1

\* C3: the progress_percentage stored on every Enrollment is within 0..100,
\* and so is every percentage a successful complete_lesson returns
C3_ProgressWithin0And100 ==
    /\ \A e \in Enrollment :
          PctGE0(e.progress_percentage) /\ PctLE100(e.progress_percentage)
    /\ (resp.op = "complete_lesson" /\ resp.status = 200) =>
          PctGE0(resp.progress_percentage) /\ PctLE100(resp.progress_percentage)

\* C4: completed_at of an Enrollment, once set, is never changed again, and
\* it is set only when the stored percentage is 100
C4_CompletedAtSetOnceAt100 ==
    [][\A e \in Enrollment : \A f \in Enrollment' :
          f.id = e.id =>
             /\ e.completed_at # None => f.completed_at = e.completed_at
             /\ f.completed_at # None => PctIs(f.progress_percentage, 100)]_vars

\* the 'course_completed' notifications the instructor of the course got
\* about the user
CourseCompletedNotifications(uid, course_id) ==
    CopiesIn([type |-> "course_completed",
              recipient_id |-> CourseRow(course_id).instructor_id,
              sender_id |-> uid, post_id |-> None,
              course_id |-> course_id, is_read |-> FALSE],
             Notification)
    + CopiesIn([type |-> "course_completed",
                recipient_id |-> CourseRow(course_id).instructor_id,
                sender_id |-> uid, post_id |-> None,
                course_id |-> course_id, is_read |-> TRUE],
               Notification)

\* C5: the instructor gets exactly one 'course_completed' notification about
\* an enrolled user who is not the instructor: none before the user has
\* completed every lesson of the course, never more than one, and one once
\* the call that completed the last lesson has returned (stated for the
\* runs in which the storage never fails)
C5_CourseCompletedNotifiedOnce ==
    \A u \in User : \A c \in Course :
        (failures = 0 /\ c.instructor_id # u.id /\ EnrollmentsOf(u.id, c.id) # {}) =>
            /\ CourseCompletedNotifications(u.id, c.id) <= 1
            /\ CourseCompletedNotifications(u.id, c.id) = 1 =>
                  CompletedBy(u.id, c.id) = LessonsOf(c.id)
            /\ ( /\ LessonsOf(c.id) # {}
                 /\ CompletedBy(u.id, c.id) = LessonsOf(c.id)
                 /\ \A p \in Procs : req[p].user # u.id ) =>
                  CourseCompletedNotifications(u.id, c.id) = 1

\* C6: a successful complete_lesson returns, and stores on the Enrollment,
\* round(100 * k / n): k the lessons of the course the user has a row for
\* (the new one counted once), n the lessons of the course; course_completed
\* is returned true exactly with the completion of the last lesson (stated
\* for the runs in which the storage never fails)
C6_PercentageIsRoundedShare ==
    (failures = 0 /\ resp.op = "complete_lesson" /\ resp.status = 200) =>
        LET course_id == LessonRow(resp.arg).course_id
            k == Cardinality(CompletedBy(resp.user, course_id))
            n == Cardinality(LessonsOf(course_id))
            expected == IF n = 0 THEN 0 ELSE PyRound(100 * k, n)
        IN  /\ PctIs(resp.progress_percentage, expected)
            /\ \A e \in EnrollmentsOf(resp.user, course_id) :
                  PctIs(e.progress_percentage, expected)
            /\ resp.course_completed = (k = n)

\* the decision of the Lesson Access Gate, first match wins: free lesson,
\* anonymous, admin, instructor of the course, enrolled
GateDecision(uid, lesson) ==
    IF lesson.is_free THEN TRUE
    ELSE IF uid = None THEN FALSE
    ELSE IF UserRow(uid).is_admin THEN TRUE
    ELSE IF CourseRow(lesson.course_id).instructor_id = uid THEN TRUE
    ELSE EnrollmentsOf(uid, lesson.course_id) # {}

\* C7: a free lesson is listed as accessible with its content, and fetched
\* with its content, whoever the viewer is
C7_FreeLessonOpenToAll ==
    /\ (resp.op = "get_course_lessons" /\ CourseExists(resp.arg)) =>
          /\ resp.status = 200
          /\ \A l \in LessonsOf(resp.arg) :
                l.is_free =>
                   \E x \in resp.lessons :
                      /\ x.id = l.id
                      /\ x.is_accessible = "True"
                      /\ x.content = l.content
    /\ (resp.op = "get_lesson" /\ LessonExists(resp.arg)
          /\ LessonRow(resp.arg).is_free) =>
          /\ resp.status = 200
          /\ resp.lesson.content = LessonRow(resp.arg).content

\* an anonymous viewer has fetched a free lesson, or a student who is not
\* enrolled has listed a course with a free lesson
C7_Witness ==
    \/ /\ resp.op = "get_lesson"
       /\ resp.user = None
       /\ resp.status = 200
       /\ LessonRow(resp.arg).is_free
    \/ /\ resp.op = "get_course_lessons"
       /\ resp.user = 2
       /\ resp.status = 200
       /\ EnrollmentsOf(2, resp.arg) = {}
       /\ \E x \in resp.lessons : x.is_free

Denied(uid, lesson) ==
    /\ ~ lesson.is_free
    /\ \/ uid = None
       \/ /\ ~ UserRow(uid).is_admin
          /\ EnrollmentsOf(uid, lesson.course_id) = {}

\* C9: a lesson the viewer is denied is still listed, with is_accessible
\* false and neither content nor video reference, and fetching it is
\* refused (403)
C9_DeniedLessonListedWithoutContent ==
    /\ (resp.op = "get_course_lessons" /\ CourseExists(resp.arg)) =>
          /\ resp.status = 200
          /\ \A l \in LessonsOf(resp.arg) :
                Denied(get_current_user(resp.user), l) =>
                   \E x \in resp.lessons :
                      /\ x.id = l.id
                      /\ x.is_accessible = "False"
                      /\ x.content = None
                      /\ x.video_url = None
    /\ (resp.op = "get_lesson" /\ LessonExists(resp.arg)
          /\ Denied(get_current_user(resp.user), LessonRow(resp.arg))) =>
          resp.status = 403

\* C10: a complete_lesson call for a (user, lesson) that has a LessonProgress
\* row is answered 'already completed' (400) and changes no table
C10_AlreadyCompletedChangesNothing ==
    [][\A uid \in UserInputs \ {None} : \A lesson_id \in LessonInputs :
          ( /\ CompleteLessonCalled(uid, lesson_id)
            /\ CopiesIn([user_id |-> uid, lesson_id |-> lesson_id], LessonProgress) > 0 ) =>
              /\ resp'.status = 400
              /\ UNCHANGED tables]_vars

\* a lesson that the user has completed has been completed again, and
\* refused
C10_Witness ==
    /\ resp.op = "complete_lesson"
    /\ resp.status = 400
    /\ CopiesIn([user_id |-> resp.user, lesson_id |-> resp.arg], LessonProgress) = 1

\* C11: a complete_lesson call by an authenticated user who has no Enrollment
\* for the course of the lesson (an admin or the instructor of the course
\* included) is answered 'not enrolled' (403) and changes no table: no
\* LessonProgress row, no Enrollment update, no Notification
C11_NotEnrolledChangesNothing ==
    [][\A uid \in UserInputs \ {None} : \A lesson_id \in LessonInputs :
          ( /\ CompleteLessonCalled(uid, lesson_id)
            /\ LessonExists(lesson_id)
            /\ EnrollmentsOf(uid, LessonRow(lesson_id).course_id) = {} ) =>
              /\ resp'.status = 403
              /\ UNCHANGED tables]_vars

\* the admin, who teaches the course and is not enrolled in it, has tried
\* to complete one of its lessons and has been refused
C11_Witness ==
    /\ resp.op = "complete_lesson"
    /\ resp.status = 403
    /\ UserRow(resp.user).is_admin
    /\ CourseRow(LessonRow(resp.arg).course_id).instructor_id = resp.user
    /\ EnrollmentsOf(resp.user, LessonRow(resp.arg).course_id) = {}

\* the step is the start of an enroll_course(uid, course_id) call: it is
\* refused at once, or it gets past validation
EnrollCalled(uid, course_id) ==
    \/ /\ pc' = pc
       /\ resp'.op = "enroll_course"
       /\ resp'.user = uid
       /\ resp'.arg = course_id
    \/ \E p \in Procs :
          /\ pc[p] = "idle"
          /\ pc'[p] = "enroll_commit"
          /\ req'[p].user = uid
          /\ req'[p].arg = course_id

\* C12: an enroll call for an existing course is answered 'already
\* enrolled' (400), changing no table, exactly when an Enrollment for (user,
\* course) exists; otherwise it succeeds (201) and its write adds exactly
\* one Enrollment for (user, course), with progress_percentage 0 and
\* completed_at NULL (stated for the runs in which the storage never fails)
C12_EnrollRefusedIffEnrolled ==
    [][ /\ \A uid \in UserInputs \ {None} : \A course_id \in CourseInputs :
              (EnrollCalled(uid, course_id) /\ CourseExists(course_id)) =>
                 /\ (resp'.status = 400) = (EnrollmentsOf(uid, course_id) # {})
                 /\ resp'.status = 400 => UNCHANGED tables
        /\ \A p \in Procs :
              (failures' = 0 /\ pc[p] = "enroll_commit" /\ pc'[p] # "enroll_commit") =>
                 \E e \in Enrollment' \ Enrollment :
                    /\ Enrollment' = Enrollment \cup {e}
                    /\ e.user_id = req[p].user
                    /\ e.course_id = req[p].arg
                    /\ PctIs(e.progress_percentage, 0)
                    /\ e.completed_at = None
        /\ \A p \in Procs :
              ( /\ failures' = 0
                /\ pc[p] \in {"enroll_commit", "enroll_notify"}
                /\ pc'[p] = "idle" ) =>
                 resp'.status = 201 ]_vars

\* C13: when two calls race on one uniqueness constraint (both passed the
\* existence check before either committed) one succeeds and the other one
\* is answered with the domain error: with the storage working, an enroll
\* call by a logged-in user for an existing course is answered 201 or
\* 'already enrolled' (400), and a complete_lesson call by an enrolled user
\* for an existing lesson 200 or 'already completed' (400)
C13_RaceLoserGetsDomainError ==
    failures = 0 =>
        /\ ( /\ resp.op = "enroll_course"
              /\ get_current_user(resp.user) # None
              /\ CourseExists(resp.arg) ) =>
                 resp.status \in {201, 400}
        /\ ( /\ resp.op = "complete_lesson"
              /\ get_current_user(resp.user) # None
              /\ LessonExists(resp.arg)
              /\ EnrollmentsOf(resp.user, LessonRow(resp.arg).course_id) # {} ) =>
                 resp.status \in {200, 400}

\* C14: every broadcast (a new post, a new course) creates at most 10
\* Notification rows, however many other users there are, and none of them
\* for the user who created the post or the course
C14_BroadcastAtMost10 ==
    [][resp'.op \in {"create_post", "create_course"} =>
          LET created == Notification' (-) Notification
          IN  /\ BagCardinality(created) <= 10
              /\ \A n \in BagToSet(created) : n.recipient_id # resp'.user]_vars

C16_NotificationFailureKeepsPrimaryEffect ==
    /\ (resp.op = "complete_lesson" /\ resp.status = 200) =>
          /\ ProgressOf(resp.user, resp.arg) # {}
          /\ \A e \in EnrollmentsOf(resp.user, LessonRow(resp.arg).course_id) :
                /\ PctLE(resp.progress_percentage, e.progress_percentage)
                /\ resp.course_completed => e.completed_at # None
    /\ (resp.op = "enroll_course" /\ resp.status = 201) =>
          EnrollmentsOf(resp.user, resp.arg) # {}

C18_MissingLessonIsNotFound ==
    [][ /\ \A uid \in UserInputs \ {None} : \A lesson_id \in LessonInputs :
              (CompleteLessonCalled(uid, lesson_id) /\ ~ LessonExists(lesson_id)) =>
                 /\ resp'.status = 404
                 /\ UNCHANGED tables
        /\ \A uid \in UserInputs \ {None} : \A course_id \in CourseInputs :
              (EnrollCalled(uid, course_id) /\ ~ CourseExists(course_id)) =>
                 /\ resp'.status = 404
                 /\ UNCHANGED tables ]_vars

\* the Notification rows of one type the instructor of the course got about
\* the user
InstructorNotifications(notification_type, uid, course_id) ==
    {n \in BagToSet(Notification) :
        /\ n.type = notification_type
        /\ n.sender_id = uid
        /\ n.course_id = course_id
        /\ n.recipient_id = CourseRow(course_id).instructor_id}

\* C19: the committed store never shows a part of what one enroll or
\* complete_lesson call writes without the rest: a notification to the
\* instructor about a completed course comes with completed_at and with a
\* LessonProgress row of the user, one about a completed lesson with such a
\* row, one about an enrollment with the Enrollment; a LessonProgress row
\* comes with the raised percentage and completed_at with a row
C19_WritesAreAtomic ==
    \A u \in User : \A c \in Course :
        /\ InstructorNotifications("course_completed", u.id, c.id) # {} =>
              /\ CompletedBy(u.id, c.id) # {}
              /\ \E e \in EnrollmentsOf(u.id, c.id) : e.completed_at # None
        /\ InstructorNotifications("lesson_completed", u.id, c.id) # {} =>
              CompletedBy(u.id, c.id) # {}
        /\ InstructorNotifications("course_enrollment", u.id, c.id) # {} =>
              EnrollmentsOf(u.id, c.id) # {}
        /\ \A e \in EnrollmentsOf(u.id, c.id) :
              /\ CompletedBy(u.id, c.id) # {} => ~ PctIs(e.progress_percentage, 0)
              /\ e.completed_at # None => CompletedBy(u.id, c.id) # {}

\* the 'lesson_completed' notifications the instructor of the course got
\* about the user
LessonCompletedNotifications(uid, course_id) ==
    LET n == NotificationRow(CourseRow(course_id).instructor_id,
                             "lesson_completed", uid, None, course_id)
    IN  CopiesIn(n, Notification) + CopiesIn([n EXCEPT !.is_read = TRUE], Notification)

\* C20: every successful complete_lesson call by a user who is not the
\* instructor of the course creates a 'lesson_completed' notification for the
\* instructor, the call that completes the course too, and the calls of the
\* instructor create none: when no call is running, the instructor has one
\* such notification for every lesson a student has completed (stated for
\* the runs in which the storage never fails)
C20_LessonCompletedNotifiedEveryTime ==
    (failures = 0 /\ \A p \in Procs : pc[p] = "idle") =>
        \A u \in User : \A c \in Course :
            LessonCompletedNotifications(u.id, c.id) =
                IF c.instructor_id # u.id
                  THEN Cardinality(CompletedBy(u.id, c.id))
                  ELSE 0

\* the step is the return of a complete_lesson call of worker p with 200
CompleteLessonReturned(p) ==
    /\ pc[p] = "complete_commit"
    /\ pc'[p] = "idle"
    /\ resp'.status = 200

\* C21: the course_completed a successful complete_lesson call returns is
\* true exactly when that call has set completed_at of the Enrollment (each
\* call writes its own timestamp), so it is returned true at most once per
\* Enrollment (stated for the runs in which the storage never fails)
C21_CourseCompletedIffCompletedAtSet ==
    [][\A p \in Procs :
          (failures' = 0 /\ CompleteLessonReturned(p)) =>
             resp'.course_completed =
                (\E e \in Enrollment' :
                    /\ e.user_id = req[p].user
                    /\ e.course_id = LessonRow(req[p].arg).course_id
                    /\ e.completed_at = req[p].t)]_vars

\* C22: the progress_percentage stored on every Enrollment is the value
\* recomputed from the tables: 100 * (LessonProgress rows of the user for
\* lessons of the course) / (lessons of the course), 0 without lessons
C22_StoredEqualsRecomputed ==
    \A e \in Enrollment :
        LET k == Cardinality(CompletedBy(e.user_id, e.course_id))
            n == Cardinality(LessonsOf(e.course_id))
        IN  IF n = 0
              THEN PctIs(e.progress_percentage, 0)
              ELSE e.progress_percentage.num * n = k * e.progress_percentage.den

\* C26: for every Enrollment of a course with lessons, completed_at is set
\* exactly when the user has a LessonProgress row for every lesson of the
\* course (stated for the states in which no call of the user is running)
C26_CompletedIffAllLessonsDone ==
    \A e \in Enrollment :
        ( /\ LessonsOf(e.course_id) # {}
          /\ \A p \in Procs : req[p].user # e.user_id ) =>
            (e.completed_at # None)
               = (CompletedBy(e.user_id, e.course_id) = LessonsOf(e.course_id))

\* C27: two complete_lesson calls of one user for two lessons of one course
\* that run at the same time lose no update: when the first one returns
\* after the other one, still running, has committed its row, the Enrollment
\* shows both completions; these being the two lessons of the course,
\* completed_at is set and the percentage is 100
C27_ConcurrentCompletionsBothCounted ==
    [][\A p \in Procs : \A q \in Procs \ {p} :
          ( /\ failures' = 0
            /\ CompleteLessonReturned(p)
            /\ req[q].op = "complete_lesson"
            /\ req[q].user = req[p].user
            /\ req[q].arg # req[p].arg
            /\ LessonRow(req[q].arg).course_id = LessonRow(req[p].arg).course_id
            /\ CopiesIn([user_id |-> req[p].user, lesson_id |-> req[p].arg],
                        LessonProgress') > 0
            /\ CopiesIn([user_id |-> req[p].user, lesson_id |-> req[q].arg],
                        LessonProgress') > 0 ) =>
              \A e \in Enrollment' :
                 ( /\ e.user_id = req[p].user
                   /\ e.course_id = LessonRow(req[p].arg).course_id ) =>
                     /\ e.completed_at # None
                     /\ PctIs(e.progress_percentage, 100)]_vars

\* C23: a mark-read request of user U turns only unread notifications whose
\* recipient is U into read ones: no other field of any notification
\* changes, none is created or deleted, no notification of another
\* recipient changes even when the request lists it, no read flag goes back
\* to false; and when everything the request names is already read the
\* request still succeeds and changes nothing
C23_MarkReadOnlyOwnUnreadToRead ==
    [][resp'.op = "mark_notifications_read" =>
          LET user == resp'.user
              before == Notification (-) Notification'
              after == Notification' (-) Notification
              named == IF resp'.arg.listed THEN BagToSet(resp'.arg.rows)
                                           ELSE BagToSet(Notification)
          IN  /\ \A r \in BagToSet(before) : r.recipient_id = user /\ ~ r.is_read
              /\ after = MarkedRead(before)
              /\ (get_current_user(user) # None /\ failures' = failures)
                    => resp'.status = 200
              /\ ( /\ resp'.status = 200
                   /\ \A r \in named : r.recipient_id = user => r.is_read )
                    => Notification' = Notification]_vars

\* a user has marked a list naming an unread notification of theirs and an
\* unread one of another recipient: the first is read now, the second is
\* still unread
C23_Witness ==
    /\ resp.op = "mark_notifications_read"
    /\ resp.status = 200
    /\ resp.arg.listed
    /\ \E r \in BagToSet(resp.arg.rows) :
          /\ r.recipient_id # resp.user
          /\ ~ r.is_read
          /\ CopiesIn(r, Notification) > 0
    /\ \E r \in BagToSet(resp.arg.rows) :
          /\ r.recipient_id = resp.user
          /\ ~ r.is_read
          /\ CopiesIn(r, Notification) = 0
          /\ CopiesIn([r EXCEPT !.is_read = TRUE], Notification) > 0

\* C30: the is_liked a successful toggle_like call returns says whether the
\* committed store holds a Like row of that user for that post when the
\* call returns, also when the 'like' notification could not be created
C30_IsLikedIsTheStoredState ==
    [][(resp'.op = "toggle_like" /\ resp'.status = 200) =>
          resp'.is_liked =
             ([user_id |-> resp'.user, post_id |-> resp'.arg] \in Like')]_vars

\* C24: in every reachable state every Lesson belongs to an existing
\* Course, every Enrollment refers to an existing user and an existing
\* course, and every LessonProgress row refers to an existing user and an
\* existing lesson
C24_ReferentialIntegrity ==
    /\ \A l \in Lesson : CourseExists(l.course_id)
    /\ \A e \in Enrollment :
          /\ \E u \in User : u.id = e.user_id
          /\ CourseExists(e.course_id)
    /\ \A r \in BagToSet(LessonProgress) :
          /\ \E u \in User : u.id = r.user_id
          /\ LessonExists(r.lesson_id)

\* C25: in every reachable state every LessonProgress row (user, lesson) is
\* backed by an Enrollment of that user in the course of the lesson
C25_ProgressBackedByEnrollment ==
    \A r \in BagToSet(LessonProgress) :
        \E l \in Lesson, e \in Enrollment :
            /\ l.id = r.lesson_id
            /\ e.user_id = r.user_id
            /\ e.course_id = l.course_id

C29_InstructorIsExistingAdmin ==
    \A c \in Course : \E u \in User : u.id = c.instructor_id /\ u.is_admin

====
